---- MODULE Spec2Model ----
(***************************************************************************)
(* Model of mdblog's content & template subsystem:                         *)
(*   - Post::new / Post::split_file (src/src/post.rs), a pure function of  *)
(*     the post file's text, its path and the outcome of the YAML parse;   *)
(*   - Theme::new / init_template / init_dir / export_static               *)
(*     (src/src/theme/mod.rs), acting on a themes directory and an output  *)
(*     directory.                                                          *)
(* Text is a sequence of characters; the characters that matter to the     *)
(* code are CR, LF, the space, the underscore, the dot and the backslash.  *)
(***************************************************************************)
EXTENDS Naturals, Sequences, FiniteSets, TLC

VARIABLES file, path, yaml, post, fs, out, theme, last, edits

vars == <<file, path, yaml, post, fs, out, theme, last, edits>>

postVars == <<file, path, yaml, post>>

themeVars == <<fs, out, theme, last, edits>>

(***************************************************************************)
(* Bounds of the model.                                                    *)
(***************************************************************************)
\* longest post file, counted in atoms (a CRLF pair is one atom)
MaxAtoms == 6

\* longest post path (file name), in characters
MaxPath == 3

\* longest header title, in characters
MaxTitle == 2

\* how many times the user edits a file of a theme directory
MaxEdits == 1

(***************************************************************************)
(* Characters and strings.                                                 *)
(***************************************************************************)
CR == "CR"

LF == "LF"

SP == "SP"

\* "k" is a character of a metadata line, "w" a character of a body word
Atoms == {"k", "w", SP, LF, "CRLF"}

RECURSIVE Flatten(_)
Flatten(a) ==
    IF a = <<>> THEN <<>>
    ELSE (IF Head(a) = "CRLF" THEN <<CR, LF>> ELSE <<Head(a)>>) \o Flatten(Tail(a))

SeqsUpTo(S, n) == UNION {[1..m -> S] : m \in 0..n}

\* the post files the model reads
Files == {Flatten(a) : a \in SeqsUpTo(Atoms, MaxAtoms)}

\* str::find: index of the first occurrence of pat in s, 0 when there is none
Find(s, pat) ==
    LET hits == {i \in 1..(Len(s) + 1 - Len(pat)) :
                    SubSeq(s, i, i + Len(pat) - 1) = pat}
    IN IF Len(pat) > Len(s) \/ hits = {} THEN 0
       ELSE CHOOSE i \in hits : \A j \in hits : i <= j

\* str::splitn(2, pat): one part when pat does not occur, else the text
\* before and the text after its first occurrence
Splitn2(s, pat) ==
    LET i == Find(s, pat)
    IN IF i = 0 THEN <<s>>
       ELSE <<SubSeq(s, 1, i - 1), SubSeq(s, i + Len(pat), Len(s))>>

\* char::is_whitespace on the characters of the model
IsWhitespace(c) == c \in {SP, LF, CR}

\* str::trim
Trim(s) ==
    LET keep == {i \in 1..Len(s) : ~IsWhitespace(s[i])}
    IN IF keep = {} THEN <<>>
       ELSE SubSeq(s, CHOOSE i \in keep : \A j \in keep : i <= j,
                      CHOOSE i \in keep : \A j \in keep : i >= j)

\* str::split_whitespace: the maximal runs of non-whitespace, in order
RECURSIVE SplitWhitespace(_)
SplitWhitespace(s) ==
    LET starts == {i \in 1..Len(s) : ~IsWhitespace(s[i])}
    IN IF starts = {} THEN <<>>
       ELSE LET b == CHOOSE i \in starts : \A j \in starts : i <= j
                stops == {i \in b..Len(s) : IsWhitespace(s[i])}
                e == IF stops = {} THEN Len(s) + 1
                     ELSE CHOOSE i \in stops : \A j \in stops : i <= j
            IN <<SubSeq(s, b, e - 1)>> \o SplitWhitespace(SubSeq(s, e, Len(s)))

\* Iterator::take(n)
Take(s, n) == SubSeq(s, 1, IF Len(s) < n THEN Len(s) ELSE n)

\* [&str]::join(sep)
RECURSIVE Join(_, _)
Join(words, sep) ==
    IF words = <<>> THEN <<>>
    ELSE IF Len(words) = 1 THEN words[1]
    ELSE words[1] \o sep \o Join(Tail(words), sep)

\* str::replace(from, to) for a single character from
RECURSIVE Replace(_, _, _)
Replace(s, from, to) ==
    IF s = <<>> THEN <<>>
    ELSE <<IF Head(s) = from THEN to ELSE Head(s)>> \o Replace(Tail(s), from, to)

(***************************************************************************)
(* Post::split_file and Post::new.                                         *)
(***************************************************************************)
\* the number of words kept in a derived description
DescWords == 100

\* what serde_yaml::from_str gives for a head: an error, or the headers.
\* Only the two headers Post::new and split_file read are kept.
Titles == SeqsUpTo({"t", "_"}, MaxTitle)

Descriptions == {<<>>, <<"d">>}

YamlOutcomes ==
    {[ok |-> FALSE, title |-> <<>>, description |-> <<>>]}
    \cup {[ok |-> TRUE, title |-> t, description |-> d] :
             t \in Titles, d \in Descriptions}

\* the parser was not called
NoYaml == [ok |-> FALSE, title |-> <<"-">>, description |-> <<"-">>]

\* utils::markdown_to_html, an opaque transform of the body
markdown_to_html(body) == <<"<p>">> \o body \o <<"</p>">>

\* the separator split_file looks for
LineEnding(content) ==
    IF Find(content, <<CR, LF>>) # 0 THEN <<CR, LF>> ELSE <<LF, LF>>

\* the description split_file derives from the body
DeriveDescription(body) ==
    LET first == Splitn2(body, <<LF, LF>>)[1]
        desc == Join(Take(SplitWhitespace(first), DescWords), <<SP>>)
    IN IF desc # <<>> THEN desc \o <<".", ".", ".">> ELSE desc

NoPost ==
    [kind |-> "None", head |-> <<>>, body |-> <<>>, htitle |-> <<>>,
     description |-> <<>>, content |-> <<>>, title |-> <<>>, url |-> <<>>,
     formatted_path |-> <<>>]

Failure(kind, head, body) == [NoPost EXCEPT !.kind = kind, !.head = head, !.body = body]

\* split_file with the body checked before the head
SplitFile_BodyCheckedFirst(content, y) ==
    LET v == Splitn2(content, LineEnding(content))
    IN IF Len(v) # 2 THEN Failure("PostOnlyOnePart", <<>>, <<>>)
       ELSE LET head == Trim(v[1])
                body == Trim(v[2])
            IN IF body = <<>> THEN Failure("PostNoBody", head, body)
               ELSE IF head = <<>> THEN Failure("PostNoHead", head, body)
               ELSE IF ~y.ok THEN Failure("PostHeadPaser", head, body)
               ELSE [NoPost EXCEPT
                        !.kind = "Ok", !.head = head, !.body = body,
                        !.htitle = y.title,
                        !.description = IF y.description = <<>>
                                        THEN DeriveDescription(body)
                                        ELSE y.description,
                        !.content = markdown_to_html(body)]

\* Post::split_file: kind is "Ok" or the error; head and body are the trimmed
\* parts (head is what the header parser is given); htitle and description
\* are headers.title and headers.description; content is the rendered body
SplitFile(content, y) ==
    LET v == Splitn2(content, LineEnding(content))
    IN IF Len(v) # 2 THEN Failure("PostOnlyOnePart", <<>>, <<>>)
       ELSE LET head == Trim(v[1])
                body == Trim(v[2])
            IN IF head = <<>> THEN Failure("PostNoHead", head, body)
               ELSE IF body = <<>> THEN Failure("PostNoBody", head, body)
               ELSE IF ~y.ok THEN Failure("PostHeadPaser", head, body)
               ELSE [NoPost EXCEPT
                        !.kind = "Ok", !.head = head, !.body = body,
                        !.htitle = y.title,
                        !.description = IF y.description = <<>>
                                        THEN DeriveDescription(body)
                                        ELSE y.description,
                        !.content = markdown_to_html(body)]

\* split_file reaches the header parser
ReachesParser(content) ==
    LET v == Splitn2(content, LineEnding(content))
    IN Len(v) = 2 /\ Trim(v[1]) # <<>> /\ Trim(v[2]) # <<>>

\* Path::file_stem of a file name
FileStem(name) ==
    LET dots == {i \in 1..Len(name) : name[i] = "."}
        lastDot == IF dots = {} THEN 0
                   ELSE CHOOSE i \in dots : \A j \in dots : i >= j
    IN IF lastDot <= 1 THEN name ELSE SubSeq(name, 1, lastDot - 1)

\* the title Post::new resolves from the header title and the path
ResolveTitle(htitle, p) ==
    Replace(IF htitle = <<>> THEN FileStem(p) ELSE htitle, "_", SP)

\* Path::new("/").join(path).with_extension("html")
Url(p) == <<"/">> \o FileStem(p) \o <<".", "h", "t", "m", "l">>

\* Post::new
PostNew(p, content, y) ==
    LET r == SplitFile(content, y)
    IN IF r.kind # "Ok" THEN r
       ELSE [r EXCEPT !.title = ResolveTitle(r.htitle, p),
                      !.url = Url(p),
                      !.formatted_path = Replace(Url(p), "\\", "/")]

\* post paths: file names (".", ".." name no file)
PathChars == {"p", "_", "."}

Paths == SeqsUpTo(PathChars, MaxPath) \ {<<>>, <<".">>, <<".", ".">>}

DefaultPath == <<"m", "y", "_", "p", "o", "s", "t", ".", "m", "d">>

DefaultFile == <<"k", LF, LF, "w">>

\* what the header parser says of the head of file f, for the files whose
\* head reaches it: every file is tried with a failing parse, with empty
\* headers and with a description, DefaultFile with every title as well
YamlFor(f) ==
    IF ~ReachesParser(f) THEN {NoYaml}
    ELSE IF f = DefaultFile THEN YamlOutcomes
    ELSE {y \in YamlOutcomes : y.title = <<>>}

(***************************************************************************)
(* Themes.  A theme directory root/name is absent, a regular file, or a    *)
(* directory holding some of the eight theme files.  File contents are     *)
(* abstract: where the bytes come from (src), which file they were made    *)
(* for (of), and whether they are a valid template, invalid UTF-8 or       *)
(* UTF-8 text that is no valid template (form).                            *)
(***************************************************************************)
ThemeNames == {"simple", "blog"}

\* the buffers of a Theme, in declaration order
StaticFields == <<"favicon", "logo", "main_css", "main_js">>

TemplateFields == <<"base", "index", "post", "tag">>

Fields == StaticFields \o TemplateFields

FieldSet == {Fields[i] : i \in 1..Len(Fields)}

\* the fixed sub-path of each buffer
PathOf ==
    [f \in FieldSet |->
        CASE f = "favicon" -> "static/favicon.png"
          [] f = "logo" -> "static/logo.png"
          [] f = "main_css" -> "static/main.css"
          [] f = "main_js" -> "static/main.js"
          [] f = "base" -> "templates/base.tpl"
          [] f = "index" -> "templates/index.tpl"
          [] f = "post" -> "templates/post.tpl"
          [] f = "tag" -> "templates/tag.tpl"]

PathSet == {PathOf[f] : f \in FieldSet}

\* the name a template buffer is registered under
TemplateName ==
    [f \in {"base", "index", "post", "tag"} |->
        CASE f = "base" -> "base.tpl"
          [] f = "index" -> "index.tpl"
          [] f = "post" -> "post.tpl"
          [] f = "tag" -> "tag.tpl"]

Absent == [src |-> "absent", of |-> "", form |-> "ok"]

\* Vec::default()
EmptyBuf == [src |-> "empty", of |-> "", form |-> "ok"]

\* SIMPLE_FAVICON ... SIMPLE_TAG
Embedded(f) == [src |-> "simple", of |-> f, form |-> "ok"]

\* what a user may put into a theme file
UserContent(f, form) == [src |-> "user", of |-> f, form |-> form]

NoDir == [kind |-> "absent", files |-> [p \in PathSet |-> Absent]]

\* Theme { .. }: renderer is the set of registered template names
NoTheme == [name |-> "", renderer |-> {}, bufs |-> [f \in FieldSet |-> EmptyBuf]]

\* the last operation: its name, argument and result, whether its
\* destination or source existed before it (for export_static: whether a
\* destination file held other bytes), the files it tried to open and the
\* files it wrote
NoOp == [op |-> "none", arg |-> "", res |-> "", existed |-> FALSE, reads |-> 0, wrote |-> 0]

\* Path::exists
Exists(disk, name) == disk[name].kind # "absent"

\* every missing theme falls back to the embedded one
IsReserved_AnyName(name) == name \in ThemeNames

\* the reserved name of the embedded theme
IsReserved(name) == name = "simple"

\* Theme::init_template: the templates are decoded and registered in order;
\* the first failure ends it.  res is "Ok", "Utf8" or "Template"; renderer
\* is what was registered by then
RECURSIVE Register(_, _, _)
Register(bufs, i, renderer) ==
    IF i > Len(TemplateFields) THEN [res |-> "Ok", renderer |-> renderer]
    ELSE LET b == bufs[TemplateFields[i]]
         IN IF b.form = "badutf8" THEN [res |-> "Utf8", renderer |-> renderer]
            ELSE IF b.form = "badtpl" THEN [res |-> "Template", renderer |-> renderer]
            ELSE Register(bufs, i + 1, renderer \cup {TemplateName[TemplateFields[i]]})

InitTemplate(t) == Register(t.bufs, 1, t.renderer)

\* init_template's error is dropped and the theme returned as it is
Finish_ErrorIgnored(t, reads) ==
    [res |-> "Ok", theme |-> [t EXCEPT !.renderer = InitTemplate(t).renderer],
     reads |-> reads]

\* `theme.init_template()?; return Ok(theme)`
Finish(t, reads) ==
    LET r == InitTemplate(t)
    IN IF r.res # "Ok" THEN [res |-> r.res, theme |-> NoTheme, reads |-> reads]
       ELSE [res |-> "Ok", theme |-> [t EXCEPT !.renderer = r.renderer], reads |-> reads]

\* the number of File::open calls Theme::new makes on a directory before
\* one fails (Len(Fields) + 1 when none fails)
FirstMissing(d) ==
    LET missing == {i \in 1..Len(Fields) :
                       d.kind # "dir" \/ d.files[PathOf[Fields[i]]] = Absent}
    IN IF missing = {} THEN Len(Fields) + 1
       ELSE CHOOSE i \in missing : \A j \in missing : i <= j

\* Theme::new: res is "Ok" or the error, theme the value returned (NoTheme
\* with an error), reads the number of files it tried to open
ThemeNew(disk, name) ==
    LET t0 == [NoTheme EXCEPT !.name = name]
    IN IF ~Exists(disk, name)
       THEN IF ~IsReserved(name)
            THEN [res |-> "ThemeNotFound", theme |-> NoTheme, reads |-> 0]
            ELSE Finish([t0 EXCEPT !.bufs = [f \in FieldSet |-> Embedded(f)]], 0)
       ELSE LET m == FirstMissing(disk[name])
            IN IF m <= Len(Fields)
               THEN [res |-> "Io", theme |-> NoTheme, reads |-> m]
               ELSE Finish([t0 EXCEPT !.bufs =
                               [f \in FieldSet |-> disk[name].files[PathOf[f]]]],
                           Len(Fields))

\* utils::write_file(path, buf): the parent directories are created and the
\* file is created or truncated and written
WriteFile(d, p, buf) == [kind |-> "dir", files |-> [d.files EXCEPT ![p] = buf]]

\* the first k writes of `fields`, each taking its buffer from theme t
RECURSIVE WriteAll(_, _, _, _)
WriteAll(d, t, fields, k) ==
    IF k = 0 THEN d
    ELSE WriteFile(WriteAll(d, t, fields, k - 1), PathOf[fields[k]], t.bufs[fields[k]])

\* the buffers init_dir writes, in order
InitDirFields == Fields

\* export_static writes the templates too
ExportFields_WithTemplates == Fields

\* the buffers export_static writes, in order
ExportFields == StaticFields

\* init_dir writes whether or not root/name exists
InitDirAttempts_NoExistsCheck(disk, name) == Len(InitDirFields)

\* the number of write_file calls init_dir(name) makes: none when root/name
\* exists (it returns Ok at once), else one per buffer
InitDirAttempts(disk, name) ==
    IF Exists(disk, name) THEN 0 ELSE Len(InitDirFields)

\* Theme::init_dir(name) of theme t when the first k of its write_file calls
\* succeed (the next one, if any, fails, after creating the directory when mk)
InitDir(disk, name, t, k, mk) ==
    LET d == WriteAll(disk[name], t, InitDirFields, k)
    IN [disk EXCEPT ![name] = IF mk THEN [d EXCEPT !.kind = "dir"] ELSE d]

\* Theme::export_static(root) of theme t when its first k writes succeed
ExportStatic(o, t, k) == WriteAll(o, t, ExportFields, k)

(***************************************************************************)
(* The state machines.                                                     *)
(***************************************************************************)
ThemeIdle ==
    /\ fs = [n \in ThemeNames |-> NoDir]
    /\ out = [NoDir EXCEPT !.kind = "dir"]
    /\ theme = NoTheme
    /\ last = NoOp
    /\ edits = 0

PostIdle ==
    /\ file = <<>>
    /\ path = DefaultPath
    /\ yaml = NoYaml
    /\ post = NoPost

\* Post::new(root, path) on the file at root/path
PostNewAction ==
    /\ post.kind = "None"
    /\ post' = PostNew(path, file, yaml)
    /\ UNCHANGED <<file, path, yaml, themeVars>>

PostInit ==
    /\ \E f \in Files \cup {DefaultFile}, p \in Paths \cup {DefaultPath} :
          /\ f = DefaultFile \/ p = DefaultPath
          /\ file = f
          /\ path = p
          /\ yaml \in YamlFor(f)
    /\ post = NoPost
    /\ ThemeIdle

PostNext == PostNewAction

PostSpec == PostInit /\ [][PostNext]_vars

\* Theme::new(root, name)
ThemeNewAction(name) ==
    /\ LET r == ThemeNew(fs, name)
       IN /\ theme' = r.theme
          /\ last' = [op |-> "new", arg |-> name, res |-> r.res,
                      existed |-> Exists(fs, name), reads |-> r.reads, wrote |-> 0]
    /\ UNCHANGED <<fs, out, edits, postVars>>

\* theme.init_dir(name)
InitDirAction(name) ==
    /\ theme # NoTheme
    /\ \E k \in 0..InitDirAttempts(fs, name), mk \in BOOLEAN :
          /\ mk => k = 0 /\ InitDirAttempts(fs, name) > 0
          /\ fs' = InitDir(fs, name, theme, k, mk)
          /\ last' = [op |-> "init_dir", arg |-> name,
                      res |-> IF k = InitDirAttempts(fs, name) THEN "Ok" ELSE "Io",
                      existed |-> Exists(fs, name), reads |-> 0, wrote |-> k]
    /\ UNCHANGED <<out, theme, edits, postVars>>

\* theme.export_static(output_root)
ExportStaticAction ==
    /\ theme # NoTheme
    /\ \E k \in 0..Len(ExportFields) :
          /\ out' = ExportStatic(out, theme, k)
          /\ last' = [op |-> "export_static", arg |-> "",
                      res |-> IF k = Len(ExportFields) THEN "Ok" ELSE "Io",
                      existed |-> \E i \in 1..Len(ExportFields) :
                                     out.files[PathOf[ExportFields[i]]]
                                         \notin {Absent, theme.bufs[ExportFields[i]]},
                      reads |-> 0, wrote |-> k]
    /\ UNCHANGED <<fs, theme, edits, postVars>>

\* the theme files the user edits, and what the edit leaves there (the
\* form of a static file is of no consequence)
EditedFields == {"main_css", "base", "post"}

Forms == {"ok", "badutf8", "badtpl"}

\* the user edits a file of a theme directory
UserEdit(name, f, form) ==
    /\ edits < MaxEdits
    /\ f \in {"base", "index", "post", "tag"} \/ form = "ok"
    /\ fs[name].kind = "dir"
    /\ fs[name].files[PathOf[f]] # Absent
    /\ fs' = [fs EXCEPT ![name].files[PathOf[f]] = UserContent(f, form)]
    /\ edits' = edits + 1
    /\ last' = [NoOp EXCEPT !.op = "edit", !.arg = name]
    /\ UNCHANGED <<out, theme, postVars>>

\* the user creates a regular file at root/name
UserCreateFile(name) ==
    /\ fs[name].kind = "absent"
    /\ fs' = [fs EXCEPT ![name].kind = "file"]
    /\ last' = [NoOp EXCEPT !.op = "create", !.arg = name]
    /\ UNCHANGED <<out, theme, edits, postVars>>

Init == ThemeIdle /\ PostIdle

Next ==
    \/ \E name \in ThemeNames : ThemeNewAction(name)
    \/ \E name \in ThemeNames : InitDirAction(name)
    \/ ExportStaticAction
    \/ \E name \in ThemeNames, f \in EditedFields, form \in Forms :
          UserEdit(name, f, form)
    \/ \E name \in ThemeNames : UserCreateFile(name)

Spec == Init /\ [][Next]_vars

(***************************************************************************)
(* Properties of Post::new, checked under PostSpec.                        *)
(***************************************************************************)
\* the parts of s between the occurrences of sep
RECURSIVE SplitAll(_, _)
SplitAll(s, sep) ==
    LET i == Find(s, sep)
    IN IF i = 0 THEN <<s>>
       ELSE <<SubSeq(s, 1, i - 1)>> \o SplitAll(SubSeq(s, i + Len(sep), Len(s)), sep)

AllWhitespace(s) == \A i \in 1..Len(s) : IsWhitespace(s[i])

\* a metadata block: one or more non-empty lines of metadata characters
IsMetadataBlock(h, eol) ==
    LET lines == SplitAll(h, eol)
    IN \A i \in 1..Len(lines) :
          /\ lines[i] # <<>>
          /\ \A j \in 1..Len(lines[i]) : lines[i][j] = "k"

\* a body: text in the file's line-ending style that starts and ends with
\* a word and holds no metadata character
IsBodyText(b, eol) ==
    /\ b # <<>>
    /\ b[1] = "w"
    /\ b[Len(b)] = "w"
    /\ \A i \in 1..Len(b) : b[i] # "k"
    /\ \A i \in 1..Len(b) :
          b[i] = LF => (IF eol = <<LF>> THEN TRUE ELSE i > 1 /\ b[i - 1] = CR)
    /\ \A i \in 1..Len(b) : b[i] = CR => eol = <<CR, LF>>

\* f is a metadata block, one blank line and a body, and the blank line
\* starts at i
WellFormedAt(f, eol, i) ==
    LET sep == eol \o eol
    IN /\ i + Len(sep) - 1 <= Len(f)
       /\ SubSeq(f, i, i + Len(sep) - 1) = sep
       /\ IsMetadataBlock(SubSeq(f, 1, i - 1), eol)
       /\ IsBodyText(SubSeq(f, i + Len(sep), Len(f)), eol)

WellFormed(f, eol) == \E i \in 1..Len(f) : WellFormedAt(f, eol, i)

MetadataOf(f, eol) ==
    SubSeq(f, 1, (CHOOSE i \in 1..Len(f) : WellFormedAt(f, eol, i)) - 1)

BodyOf(f, eol) ==
    SubSeq(f, (CHOOSE i \in 1..Len(f) : WellFormedAt(f, eol, i)) + 2 * Len(eol), Len(f))

LineStyles == {<<LF>>, <<CR, LF>>}

\* C1: for every well-formed post file (a non-empty metadata block of one or
\* more lines, one blank line, a non-empty body), in LF or in CRLF style,
\* Post::new passes the structural checks, hands the whole metadata block to
\* the header parser, succeeds when the parser does, and renders the body
\* only.
C1_WellFormedFileSplitsAtBlankLine ==
    \A eol \in LineStyles :
        (post.kind # "None" /\ WellFormed(file, eol)) =>
            /\ post.kind \in {"Ok", "PostHeadPaser"}
            /\ post.kind = "Ok" <=> yaml.ok
            /\ post.head = MetadataOf(file, eol)
            /\ post.kind = "Ok" => post.content = markdown_to_html(BodyOf(file, eol))

\* the same for LF files alone
C1_LfFileSplitsAtBlankLine ==
    (post.kind # "None" /\ WellFormed(file, <<LF>>)) =>
        /\ post.kind \in {"Ok", "PostHeadPaser"}
        /\ post.kind = "Ok" <=> yaml.ok
        /\ post.head = MetadataOf(file, <<LF>>)
        /\ post.kind = "Ok" => post.content = markdown_to_html(BodyOf(file, <<LF>>))

\* no two consecutive line terminators, each an LF or a CRLF
NoBlankLine(f) == Find(f, <<LF, LF>>) = 0 /\ Find(f, <<LF, CR, LF>>) = 0

\* C2: a file without a blank-line boundary, single CRLF line breaks or
\* not, fails with PostOnlyOnePart and never reaches the header parser.
C2_NoBlankLineIsOnlyOnePart ==
    (post.kind # "None" /\ NoBlankLine(file)) => post.kind = "PostOnlyOnePart"

\* the same for files without a CR
C2_LfNoBlankLineIsOnlyOnePart ==
    (post.kind # "None" /\ NoBlankLine(file) /\ Find(file, <<CR>>) = 0)
        => post.kind = "PostOnlyOnePart"

\* C3: Post.title is the header title as written when that is non-empty,
\* else the file stem of the path with every underscore replaced by a space.
C3_HeaderTitleKeptAsWritten ==
    post.kind = "Ok" =>
        post.title = IF post.htitle # <<>> THEN post.htitle
                     ELSE Replace(FileStem(path), "_", SP)

\* what the code does: underscores are replaced in either title
C3_UnderscoresReplacedInEitherTitle ==
    post.kind = "Ok" =>
        /\ \A i \in 1..Len(post.title) : post.title[i] # "_"
        /\ LET from == IF post.htitle # <<>> THEN post.htitle ELSE FileStem(path)
           IN /\ Len(post.title) = Len(from)
              /\ \A i \in 1..Len(from) :
                    post.title[i] = IF from[i] = "_" THEN SP ELSE from[i]

\* the text of b before its first blank line, LF or CRLF
FirstParagraph(b) ==
    LET ends == {Find(b, <<LF, LF>>), Find(b, <<CR, LF, CR, LF>>)} \ {0}
    IN IF ends = {} THEN b
       ELSE SubSeq(b, 1, (CHOOSE i \in ends : \A j \in ends : i <= j) - 1)

\* C4: with an empty header description, the description is the first (at
\* most 100) words of the body's first paragraph, for LF and CRLF files
\* alike, joined by single spaces and followed by "...".
C4_DescriptionIsFirstParagraph ==
    (post.kind = "Ok" /\ yaml.description = <<>>) =>
        post.description =
            Join(Take(SplitWhitespace(FirstParagraph(post.body)), DescWords), <<SP>>)
                \o <<".", ".", ".">>

\* the same for files without a CR
C4_LfDescriptionIsFirstParagraph ==
    (post.kind = "Ok" /\ yaml.description = <<>> /\ Find(file, <<CR>>) = 0) =>
        post.description =
            Join(Take(SplitWhitespace(FirstParagraph(post.body)), DescWords), <<SP>>)
                \o <<".", ".", ".">>

\* C10: once the file is split in two, a head that is blank yields
\* PostNoHead even when the body is blank too, else a blank body yields
\* PostNoBody, and only a file whose head and body are both not blank
\* reaches the header parser (PostHeadPaser comes from such files alone).
C10_StructuralChecksInOrder ==
    LET v == Splitn2(file, LineEnding(file))
    IN (post.kind # "None" /\ Len(v) = 2) =>
          /\ AllWhitespace(v[1]) => post.kind = "PostNoHead"
          /\ (~AllWhitespace(v[1]) /\ AllWhitespace(v[2])) => post.kind = "PostNoBody"
          /\ (~AllWhitespace(v[1]) /\ ~AllWhitespace(v[2]))
                => /\ post.kind = (IF yaml.ok THEN "Ok" ELSE "PostHeadPaser")
                   /\ yaml # NoYaml
          /\ post.kind = "PostHeadPaser"
                => ~AllWhitespace(v[1]) /\ ~AllWhitespace(v[2])
          /\ (AllWhitespace(v[1]) \/ AllWhitespace(v[2])) => yaml = NoYaml

\* a file whose head and body are both blank was given PostNoHead
C10_Witness ==
    LET v == Splitn2(file, LineEnding(file))
    IN /\ post.kind = "PostNoHead"
       /\ Len(v) = 2
       /\ AllWhitespace(v[1])
       /\ AllWhitespace(v[2])

(***************************************************************************)
(* Properties of Theme, checked under Spec.                                *)
(***************************************************************************)
AllTemplates == {TemplateName[f] : f \in {"base", "index", "post", "tag"}}

StaticPaths == {PathOf[StaticFields[i]] : i \in 1..Len(StaticFields)}

C6_InitDirKeepsExistingTheme ==
    [][\A n \in ThemeNames :
          (last'.op = "init_dir" /\ last'.arg = n /\ Exists(fs, n)) =>
              /\ fs' = fs
              /\ out' = out
              /\ last'.res = "Ok"
              /\ last'.wrote = 0]_vars

\* init_dir returned Ok on a directory that holds all eight files, one of
\* them with other bytes than the theme's buffer
C6_Witness ==
    /\ last.op = "init_dir"
    /\ last.existed
    /\ last.res = "Ok"
    /\ fs[last.arg].kind = "dir"
    /\ \A p \in PathSet : fs[last.arg].files[p] # Absent
    /\ \E f \in FieldSet : fs[last.arg].files[PathOf[f]] # theme.bufs[f]

\* C7: export_static writes nothing but static/favicon.png, static/logo.png,
\* static/main.css and static/main.js of the output root (no template, no
\* file of the themes directory), and after a call that returns Ok the four
\* hold the calling theme's buffers, whatever they held before.
C7_ExportStaticLastWriteWins ==
    [][last'.op = "export_static" =>
          /\ fs' = fs
          /\ out'.kind = out.kind
          /\ \A p \in PathSet \ StaticPaths : out'.files[p] = out.files[p]
          /\ last'.res = "Ok" =>
                \A i \in 1..Len(StaticFields) :
                    out'.files[PathOf[StaticFields[i]]] = theme.bufs[StaticFields[i]]
          /\ last'.res # "Ok" =>
                \A p \in StaticPaths :
                    out'.files[p] = out.files[p]
                    \/ \E f \in FieldSet : p = PathOf[f] /\ out'.files[p] = theme.bufs[f]]_vars

\* export_static returned Ok over static files that held other bytes
C7_Witness ==
    /\ last.op = "export_static"
    /\ last.res = "Ok"
    /\ last.existed
    /\ \A i \in 1..Len(StaticFields) :
          out.files[PathOf[StaticFields[i]]] = theme.bufs[StaticFields[i]]

\* the templates of directory d that from_utf8 or add_raw_template rejects
BadTemplates(d) ==
    {f \in {"base", "index", "post", "tag"} : d.files[PathOf[f]].form # "ok"}

\* C8: a Theme that Theme::new returns has all eight buffers filled from its
\* source and all four templates registered; when a file is missing or a
\* template fails to decode or to register, also a later one after earlier
\* ones registered, Theme::new returns the error and no Theme.
C8_ThemeIsAllOrNothing ==
    /\ theme # NoTheme =>
          /\ theme.renderer = AllTemplates
          /\ \A f \in FieldSet : theme.bufs[f] \notin {EmptyBuf, Absent}
          /\ \A f \in {"base", "index", "post", "tag"} : theme.bufs[f].form = "ok"
    /\ last.op = "new" =>
          /\ last.res = "Ok" <=> theme # NoTheme
          /\ (last.res = "Ok" /\ last.existed) =>
                theme.bufs = [f \in FieldSet |-> fs[last.arg].files[PathOf[f]]]
          /\ (last.existed /\ \E p \in PathSet : fs[last.arg].files[p] = Absent)
                => last.res = "Io"
          /\ (last.existed /\ BadTemplates(fs[last.arg]) # {})
                => last.res \in {"Io", "Utf8", "Template"}

\* Theme::new failed on post.tpl after base.tpl and index.tpl registered
C8_Witness ==
    /\ last.op = "new"
    /\ last.res \in {"Utf8", "Template"}
    /\ BadTemplates(fs[last.arg]) = {"post"}
    /\ theme = NoTheme

\* C9: after init_dir(name) has returned, Ok or Io, the directory root/name
\* it created holds all eight theme files or does not exist, so Theme::new
\* on a theme directory never fails with Io for a missing file.
C9_InitDirLeavesNoPartialTheme ==
    /\ (last.op = "init_dir" /\ ~last.existed) =>
          \/ fs[last.arg].kind = "absent"
          \/ \A p \in PathSet : fs[last.arg].files[p] # Absent
    /\ (last.op = "new" /\ fs[last.arg].kind = "dir") => last.res # "Io"

\* init_dir that returns Ok after writing leaves all eight files
C9_InitDirOkLeavesWholeTheme ==
    (last.op = "init_dir" /\ ~last.existed /\ last.res = "Ok") =>
        \A f \in FieldSet : fs[last.arg].files[PathOf[f]] = theme.bufs[f]

====
